---- MODULE Spec2Model ----
(***************************************************************************)
(* The Orders admin page (src/src/app/orders/page.tsx) as a state machine. *)
(*                                                                         *)
(* The React component keeps five state cells (orders, loading,            *)
(* editingOrder, showAddForm, formState).  Its handlers are event          *)
(* callbacks; the four async handlers issue a call to the document store   *)
(* and resume after the await with the values their render closed over.    *)
(* The store answers each call at some moment between its issue and its    *)
(* completion; completions are delivered in any order.                     *)
(*                                                                         *)
(* Strings the code splits, trims and joins (the cart-items text and the   *)
(* cart items) are sequences of one-character strings; the other field     *)
(* values are opaque strings.  JavaScript objects are functions from       *)
(* property names to values, an absent property being absent from the      *)
(* domain.                                                                 *)
(***************************************************************************)
EXTENDS Integers, Sequences, FiniteSets, TLC

VARIABLES
    orders,         \* useState<Order[]>([])            (line 42)
    loading,        \* useState<boolean>(false)         (line 43)
    editingOrder,   \* useState<Order | null>(null)     (line 44)
    showAddForm,    \* useState<boolean>(false)         (line 45)
    formState,      \* useState<OrderInput>({})         (line 46)
    calls,          \* the store calls in flight, one per slot
    store,          \* the document store: _id -> document of _type "order"
    nextId,         \* the next _id the store assigns
    issued,         \* store calls issued so far
    ev              \* the last completion, mode switch or delete click, with the
                    \* state it started from ("other" after any other handler)

vars == <<orders, loading, editingOrder, showAddForm, formState, calls, store, nextId, issued, ev>>

-----------------------------------------------------------------------------
(* Bounds of the model. *)

\* Store calls that may be in flight together.
MaxInflight == 2
\* Store calls issued in a run, the fetch at mount included.
MaxCalls == 2
\* Documents in the store when the page mounts.
InitDocs == 2
\* Length of the cart-items texts typed in the runs about that text.
MaxTextLen == 3

-----------------------------------------------------------------------------
(* Values. *)

\* null (editingOrder) and {} (formState): the function with no property.
Null == <<>>
EmptyForm == <<>>
\* The value read from a property an object does not have.
Undefined == "undefined"

\* The free-text and numeric inputs of the form other than createdAt and
\* cartItems (fullName, email, phone, address, city, postalCode, country,
\* paymentMethod, paymentStatus, amount): every handler copies them alike.
ScalarFields == {"fullName"}

\* The properties of an Order.
OrderKeys == {"_id"} \cup ScalarFields \cup {"createdAt", "cartItems"}

\* The inputs marked `required` whose displayed value is formState's own.
RequiredFields == ScalarFields \cup {"createdAt"}

\* The characters of the texts the code takes apart.
Chars == {"a", ",", " "}
Whitespace == {" "}
Texts(n) == UNION {[1..k -> Chars] : k \in 0..n}

\* What the user may type.
ScalarInputs == {"y"}
TimeInputs == {"t1"}
CartInputs == { <<"c">> }
\* In the runs about the cart-items text: every text up to MaxTextLen.
AllCartInputs == Texts(MaxTextLen)

\* The cart items of the documents in the store at mount.
InitCarts == { << <<"a">>, <<"b">> >> }
\* In the runs about the cart-items text: the first document's cart items.
CartSamples ==
    { <<>>, << <<"a">> >>, << <<"a">>, <<"b">> >>, << <<"a">>, <<"a">>, <<"b">> >>,
      << <<>> >>, << <<"a">>, <<>> >>, << <<"a", ",", "b">> >>, << <<" ", "a">> >> }

-----------------------------------------------------------------------------
(* String functions of the JavaScript runtime. *)

\* String.prototype.trim
RECURSIVE TrimLeft(_)
TrimLeft(s) ==
    IF s # <<>> /\ Head(s) \in Whitespace THEN TrimLeft(Tail(s)) ELSE s

RECURSIVE TrimRight(_)
TrimRight(s) ==
    IF s # <<>> /\ s[Len(s)] \in Whitespace
    THEN TrimRight(SubSeq(s, 1, Len(s) - 1))
    ELSE s

Trim(s) == TrimRight(TrimLeft(s))

\* String.prototype.split(","): the pieces between the commas, at least one.
RECURSIVE Split(_)
Split(s) ==
    IF \A i \in 1..Len(s) : s[i] # ","
    THEN << s >>
    ELSE LET i == CHOOSE j \in 1..Len(s) :
                      s[j] = "," /\ \A k \in 1..(j - 1) : s[k] # ","
         IN  << SubSeq(s, 1, i - 1) >> \o Split(SubSeq(s, i + 1, Len(s)))

\* Array.prototype.join(", ")
RECURSIVE Join(_)
Join(items) ==
    IF items = <<>> THEN <<>>
    ELSE IF Len(items) = 1 THEN items[1]
    ELSE items[1] \o <<",", " ">> \o Join(Tail(items))

\* Array.prototype.map(f)
MapTrim(items) == [i \in 1..Len(items) |-> Trim(items[i])]

-----------------------------------------------------------------------------
(* Pure parts of the handlers. *)

\* The 13 properties the page keeps of a store document.
PickOrder(doc) ==
    [k \in OrderKeys |-> IF k \in DOMAIN doc THEN doc[k] ELSE Undefined]

\* { ...a, ...b }
Spread(a, b) == b @@ a

\* formState.cartItems ? formState.cartItems.split(",").map(trim) : []
CartItemsArrayNoTrim(fs) ==
    IF "cartItems" \in DOMAIN fs /\ fs["cartItems"] # <<>>
    THEN Split(fs["cartItems"])
    ELSE <<>>

CartItemsArray(fs) ==
    IF "cartItems" \in DOMAIN fs /\ fs["cartItems"] # <<>>
    THEN MapTrim(Split(fs["cartItems"]))
    ELSE <<>>

\* The form state handleEditClick derives from an order.
EditFormState(order) ==
    [k \in OrderKeys |->
        IF k = "cartItems" THEN Join(order["cartItems"]) ELSE order[k]]

\* prev.filter((order) => order._id !== id)
RECURSIVE FilterKeep(_, _)
FilterKeep(prev, id) ==
    IF prev = <<>> THEN <<>>
    ELSE IF Head(prev)["_id"] # id THEN FilterKeep(Tail(prev), id)
    ELSE <<Head(prev)>> \o FilterKeep(Tail(prev), id)

RECURSIVE FilterOut(_, _)
FilterOut(prev, id) ==
    IF prev = <<>> THEN <<>>
    ELSE IF Head(prev)["_id"] = id THEN FilterOut(Tail(prev), id)
    ELSE <<Head(prev)>> \o FilterOut(Tail(prev), id)

\* prev.map((ord) => (ord._id === editingOrder._id ? updatedOrder : ord))
MapReplaceInverted(prev, id, updatedOrder) ==
    [i \in 1..Len(prev) |-> IF prev[i]["_id"] # id THEN updatedOrder ELSE prev[i]]

MapReplace(prev, id, updatedOrder) ==
    [i \in 1..Len(prev) |-> IF prev[i]["_id"] = id THEN updatedOrder ELSE prev[i]]

\* isEditing, isFormOpen (lines 216-217)
isEditing == editingOrder # Null
isFormOpen == isEditing \/ showAddForm

\* The browser submits the form only when every required input has a value.
FormValid ==
    \A k \in RequiredFields : k \in DOMAIN formState /\ formState[k] # ""

-----------------------------------------------------------------------------
(* The store calls in flight. *)

NoCall == [kind |-> "none"]
Slots == 1..MaxInflight
FreeSlots == {s \in Slots : calls[s].kind = "none"}
HasFree == FreeSlots # {}
Free == CHOOSE s \in FreeSlots : \A t \in FreeSlots : s <= t

\* What the handlers read of the render they were created in.
UI == [orders |-> orders, editingOrder |-> editingOrder,
       showAddForm |-> showAddForm, formState |-> formState]

Mode == [showAddForm |-> showAddForm, isEditing |-> isEditing]
Event(op) == [op |-> op, mode |-> Mode]
Other == [op |-> "other"]
CallEvent(op, s) == [op |-> op, pre |-> UI, call |-> calls[s]]

\* A handler may issue a call: a slot is free and the run's budget is not spent.
CanIssue == HasFree /\ issued < MaxCalls

-----------------------------------------------------------------------------
(* The document store. *)

\* A document as the store holds it at mount.
InitDoc(id, cart) ==
    [k \in OrderKeys \cup {"_type"} |->
        CASE k = "_id" -> id
          [] k = "_type" -> "order"
          [] k = "createdAt" -> "t1"
          [] k = "cartItems" -> cart
          [] OTHER -> "x"]

RECURSIVE Ascending(_)
Ascending(ids) ==
    IF ids = {} THEN <<>>
    ELSE LET m == CHOOSE x \in ids : \A y \in ids : x <= y
         IN  <<m>> \o Ascending(ids \ {m})

\* *[_type=="order"]{ _id, fullName, ..., cartItems }
QueryOrders ==
    LET ids == Ascending(DOMAIN store)
    IN  [i \in 1..Len(ids) |-> PickOrder(store[ids[i]])]

Answer(s, call) ==
    calls' = [calls EXCEPT ![s] = call]

\* The store evaluates the query of a fetch.
StoreFetch(s) ==
    /\ calls[s].kind = "fetch" /\ calls[s].phase = "sent"
    /\ Answer(s, [calls[s] EXCEPT !.phase = "ok", !.result = QueryOrders])
    /\ UNCHANGED <<orders, loading, editingOrder, showAddForm, formState, store, nextId, ev, issued>>

\* The store deletes a document (deleting a missing one changes nothing).
StoreDelete(s) ==
    /\ calls[s].kind = "delete" /\ calls[s].phase = "sent"
    /\ store' = [id \in (DOMAIN store) \ {calls[s].id} |-> store[id]]
    /\ Answer(s, [calls[s] EXCEPT !.phase = "ok"])
    /\ UNCHANGED <<orders, loading, editingOrder, showAddForm, formState, nextId, ev, issued>>

\* The store sets the patch's properties on an existing document.
StorePatch(s) ==
    /\ calls[s].kind = "patch" /\ calls[s].phase = "sent"
    /\ calls[s].id \in DOMAIN store
    /\ LET doc == Spread(store[calls[s].id], calls[s].body)
       IN  /\ store' = [store EXCEPT ![calls[s].id] = doc]
           /\ Answer(s, [calls[s] EXCEPT !.phase = "ok", !.result = doc])
    /\ UNCHANGED <<orders, loading, editingOrder, showAddForm, formState, nextId, ev, issued>>

\* The store persists a new document under a fresh _id.
StoreCreate(s) ==
    /\ calls[s].kind = "create" /\ calls[s].phase = "sent"
    /\ LET doc == Spread(calls[s].body, [_id |-> nextId])
       IN  /\ store' = (nextId :> doc) @@ store
           /\ Answer(s, [calls[s] EXCEPT !.phase = "ok", !.result = doc])
    /\ nextId' = nextId + 1
    /\ UNCHANGED <<orders, loading, editingOrder, showAddForm, formState, ev, issued>>

-----------------------------------------------------------------------------
(* The user's actions: the synchronous part of each handler. *)

\* The "Add New Order" button.
ClickAddNew ==
    /\ showAddForm' = TRUE
    /\ editingOrder' = Null
    /\ formState' = EmptyForm
    /\ ev' = Event("addNew")
    /\ UNCHANGED <<orders, loading, calls, store, nextId, issued>>

handleEditClickKeepAdd(i) ==
    /\ ~loading /\ i \in 1..Len(orders)
    /\ editingOrder' = orders[i]
    /\ formState' = EditFormState(orders[i])
    /\ ev' = Event("handleEditClick")
    /\ UNCHANGED <<orders, loading, showAddForm, calls, store, nextId, issued>>

\* A card or its "Edit" button; the cards are rendered only when not loading.
handleEditClick(i) ==
    /\ ~loading /\ i \in 1..Len(orders)
    /\ editingOrder' = orders[i]
    /\ formState' = EditFormState(orders[i])
    /\ showAddForm' = FALSE
    /\ ev' = Event("handleEditClick")
    /\ UNCHANGED <<orders, loading, calls, store, nextId, issued>>

\* The three state updates of handleCancel.
Cancelled ==
    /\ editingOrder' = Null
    /\ showAddForm' = FALSE
    /\ formState' = EmptyForm

\* The "Cancel" button of the form.
handleCancel ==
    /\ isFormOpen
    /\ Cancelled
    /\ ev' = Other
    /\ UNCHANGED <<orders, loading, calls, store, nextId, issued>>

\* { ...prev, [name]: type === "checkbox" ? checked : value }
ChangedForm(prev, name, value, type, checked) ==
    Spread(prev, name :> (IF type = "checkbox" THEN checked ELSE value))

\* The inputs of the form and what each can be given.
FormInputs(cartTexts) ==
    {<<k, v, "text">> : k \in ScalarFields, v \in ScalarInputs}
    \cup {<<"createdAt", v, "datetime-local">> : v \in TimeInputs}
    \cup {<<"cartItems", v, "text">> : v \in cartTexts}

\* value={formState.<name> || ""}: what an input shows.
Displayed(fs, name) ==
    IF name \in DOMAIN fs THEN fs[name]
    ELSE IF name = "cartItems" THEN <<>> ELSE ""

\* onChange of an input: fired when what it shows changes.
handleFormChange(in) ==
    /\ isFormOpen
    /\ in[2] # Displayed(formState, in[1])
    /\ formState' = ChangedForm(formState, in[1], in[2], in[3], Undefined)
    /\ ev' = Other
    /\ UNCHANGED <<orders, loading, editingOrder, showAddForm, calls, store, nextId, issued>>

\* Submit in edit mode: handleUpdate up to its await.
handleUpdate ==
    /\ isEditing /\ FormValid /\ CanIssue
    /\ "_id" \in DOMAIN editingOrder
    /\ calls' = [calls EXCEPT ![Free] =
                    [kind |-> "patch", phase |-> "sent", id |-> editingOrder["_id"],
                     body |-> Spread(formState, [cartItems |-> CartItemsArray(formState)]),
                     result |-> Null, snap |-> UI]]
    /\ ev' = Other
    /\ issued' = issued + 1
    /\ UNCHANGED <<orders, loading, editingOrder, showAddForm, formState, store, nextId>>

\* Submit in create mode: handleAddNew up to its await.
handleAddNew(now) ==
    /\ ~isEditing /\ showAddForm /\ FormValid /\ CanIssue
    /\ LET createdAt == IF "createdAt" \in DOMAIN formState /\ formState["createdAt"] # ""
                        THEN formState["createdAt"] ELSE now
       IN  calls' = [calls EXCEPT ![Free] =
                    [kind |-> "create", phase |-> "sent",
                     body |-> Spread(Spread([_type |-> "order"], formState),
                                     [cartItems |-> CartItemsArray(formState),
                                      createdAt |-> createdAt]),
                     result |-> Null, snap |-> UI]]
    /\ ev' = Other
    /\ issued' = issued + 1
    /\ UNCHANGED <<orders, loading, editingOrder, showAddForm, formState, store, nextId>>

\* The "Delete" button of a card and the answer to confirm().
handleDelete(i, confirmed) ==
    /\ ~loading /\ i \in 1..Len(orders)
    /\ IF confirmed
       THEN /\ CanIssue
            /\ issued' = issued + 1
            /\ calls' = [calls EXCEPT ![Free] =
                            [kind |-> "delete", phase |-> "sent", id |-> orders[i]["_id"]]]
            /\ ev' = [op |-> "handleDelete", pre |-> UI, calls |-> calls, after |-> calls']
       ELSE /\ calls' = calls
            /\ issued' = issued
            /\ ev' = [op |-> "deleteDeclined", pre |-> UI, calls |-> calls, after |-> calls']
    /\ UNCHANGED <<orders, loading, editingOrder, showAddForm, formState, store, nextId>>

\* The "Refresh" button: fetchOrders up to its await.
fetchOrders ==
    /\ CanIssue
    /\ loading' = TRUE
    /\ calls' = [calls EXCEPT ![Free] = [kind |-> "fetch", phase |-> "sent", result |-> <<>>]]
    /\ ev' = Other
    /\ issued' = issued + 1
    /\ UNCHANGED <<orders, editingOrder, showAddForm, formState, store, nextId>>

-----------------------------------------------------------------------------
(* The completions: what each async handler does after its await. *)

Release(s) == calls' = [calls EXCEPT ![s] = NoCall]

\* The promise of a call rejects: the store refused the call or the call was
\* lost on its way, or the store performed it and its answer was lost.
Rejects(call) == call.phase \in {"sent", "ok"}

\* fetchOrders, the call resolved: setOrders(data); setLoading(false).
FetchDone(s) ==
    /\ calls[s].kind = "fetch" /\ calls[s].phase = "ok"
    /\ orders' = calls[s].result
    /\ loading' = FALSE
    /\ Release(s)
    /\ ev' = CallEvent("fetchDone", s)
    /\ UNCHANGED <<editingOrder, showAddForm, formState, store, nextId, issued>>

\* fetchOrders, the call rejected: console.error; setLoading(false).
FetchFail(s) ==
    /\ calls[s].kind = "fetch" /\ Rejects(calls[s])
    /\ loading' = FALSE
    /\ Release(s)
    /\ ev' = CallEvent("fetchFail", s)
    /\ UNCHANGED <<orders, editingOrder, showAddForm, formState, store, nextId, issued>>

\* handleDelete, the call resolved.
DeleteDone(s) ==
    /\ calls[s].kind = "delete" /\ calls[s].phase = "ok"
    /\ orders' = FilterOut(orders, calls[s].id)
    /\ Release(s)
    /\ ev' = CallEvent("deleteDone", s)
    /\ UNCHANGED <<loading, editingOrder, showAddForm, formState, store, nextId, issued>>

\* handleDelete, the call rejected: console.error; alert.
DeleteFail(s) ==
    /\ calls[s].kind = "delete" /\ Rejects(calls[s])
    /\ Release(s)
    /\ ev' = CallEvent("deleteFail", s)
    /\ UNCHANGED <<orders, loading, editingOrder, showAddForm, formState, store, nextId, issued>>

\* handleUpdate, the call resolved: the entries with the id of the editingOrder
\* of the submitting render are replaced; handleCancel().
UpdateDone(s) ==
    /\ calls[s].kind = "patch" /\ calls[s].phase = "ok"
    /\ orders' = MapReplace(orders, calls[s].snap.editingOrder["_id"],
                            PickOrder(calls[s].result))
    /\ Cancelled
    /\ Release(s)
    /\ ev' = CallEvent("updateDone", s)
    /\ UNCHANGED <<loading, store, nextId, issued>>

UpdateFailClosing(s) ==
    /\ calls[s].kind = "patch" /\ Rejects(calls[s])
    /\ Cancelled
    /\ Release(s)
    /\ ev' = CallEvent("updateFail", s)
    /\ UNCHANGED <<orders, loading, store, nextId, issued>>

\* handleUpdate, the call rejected: console.error; alert.
UpdateFail(s) ==
    /\ calls[s].kind = "patch" /\ Rejects(calls[s])
    /\ Release(s)
    /\ ev' = CallEvent("updateFail", s)
    /\ UNCHANGED <<orders, loading, editingOrder, showAddForm, formState, store, nextId, issued>>

CreateDonePrepend(s) ==
    /\ calls[s].kind = "create" /\ calls[s].phase = "ok"
    /\ orders' = <<PickOrder(calls[s].result)>> \o orders
    /\ Cancelled
    /\ Release(s)
    /\ ev' = CallEvent("createDone", s)
    /\ UNCHANGED <<loading, store, nextId, issued>>

\* handleAddNew, the call resolved: [...prev, addedOrder]; handleCancel().
CreateDone(s) ==
    /\ calls[s].kind = "create" /\ calls[s].phase = "ok"
    /\ orders' = Append(orders, PickOrder(calls[s].result))
    /\ Cancelled
    /\ Release(s)
    /\ ev' = CallEvent("createDone", s)
    /\ UNCHANGED <<loading, store, nextId, issued>>

\* handleAddNew, the call rejected: console.error; alert.
CreateFail(s) ==
    /\ calls[s].kind = "create" /\ Rejects(calls[s])
    /\ Release(s)
    /\ ev' = CallEvent("createFail", s)
    /\ UNCHANGED <<orders, loading, editingOrder, showAddForm, formState, store, nextId, issued>>

-----------------------------------------------------------------------------
(* The page once mounted: the initial state cells and the fetch of useEffect. *)

\* new Date().toISOString()
Now == {"now"}

Init ==
    /\ orders = <<>>
    /\ loading = TRUE
    /\ editingOrder = Null
    /\ showAddForm = FALSE
    /\ formState = EmptyForm
    /\ calls = [s \in Slots |->
                  IF s = 1 THEN [kind |-> "fetch", phase |-> "sent", result |-> <<>>]
                  ELSE NoCall]
    /\ \E carts \in [1..InitDocs -> InitCarts] :
          store = [id \in 1..InitDocs |-> InitDoc(id, carts[id])]
    /\ nextId = InitDocs + 1
    /\ issued = 1
    /\ ev = [op |-> "mount"]

\* What the store does with a call, and what the page does when it completes.
StoreStep(s) ==
    \/ StoreFetch(s) \/ StoreDelete(s) \/ StorePatch(s) \/ StoreCreate(s)

Resolved(s) ==
    \/ FetchDone(s) \/ DeleteDone(s) \/ UpdateDone(s) \/ CreateDone(s)

Rejected(s) ==
    \/ FetchFail(s) \/ DeleteFail(s) \/ UpdateFail(s) \/ CreateFail(s)

Next ==
    \/ ClickAddNew
    \/ \E i \in 1..Len(orders) : handleEditClick(i)
    \/ handleCancel
    \/ \E in \in FormInputs(CartInputs) : handleFormChange(in)
    \/ handleUpdate
    \/ \E now \in Now : handleAddNew(now)
    \/ \E i \in 1..Len(orders), confirmed \in BOOLEAN : handleDelete(i, confirmed)
    \/ fetchOrders
    \/ \E s \in Slots : StoreStep(s)
    \/ \E s \in Slots : Resolved(s)
    \/ \E s \in Slots : Rejected(s)

\* Every interleaving of the user's actions, the store and the completions.
Spec == Init /\ [][Next]_vars

\* The same, with a store that rejects no call and loses none.
NextNoFail ==
    \/ ClickAddNew
    \/ \E i \in 1..Len(orders) : handleEditClick(i)
    \/ handleCancel
    \/ \E in \in FormInputs(CartInputs) : handleFormChange(in)
    \/ handleUpdate
    \/ \E now \in Now : handleAddNew(now)
    \/ \E i \in 1..Len(orders), confirmed \in BOOLEAN : handleDelete(i, confirmed)
    \/ fetchOrders
    \/ \E s \in Slots : StoreStep(s)
    \/ \E s \in Slots : Resolved(s)

SpecNoFail == Init /\ [][NextNoFail]_vars

\* The page once the fetch at mount has completed, the first document's cart
\* items drawn from `carts`; the calls are counted from here.
InitLoaded(carts) ==
    /\ \E cart \in carts :
          store = [id \in 1..InitDocs |->
                      InitDoc(id, IF id = 1 THEN cart ELSE << <<"a">>, <<"b">> >>)]
    /\ orders = QueryOrders
    /\ loading = FALSE
    /\ editingOrder = Null
    /\ showAddForm = FALSE
    /\ formState = EmptyForm
    /\ calls = [s \in Slots |-> NoCall]
    /\ nextId = InitDocs + 1
    /\ issued = 0
    /\ ev = Other

\* Every interleaving from a loaded page.
SpecLoaded == InitLoaded(InitCarts) /\ [][Next]_vars

\* No call has been issued yet.
Idle == issued = 0

\* A user who types any cart-items text, issues one call and watches it complete.
NextSeq ==
    \/ Idle /\ ClickAddNew
    \/ Idle /\ \E i \in 1..Len(orders) : handleEditClick(i)
    \/ Idle /\ handleCancel
    \/ Idle /\ \E in \in FormInputs(AllCartInputs) : handleFormChange(in)
    \/ Idle /\ handleUpdate
    \/ Idle /\ \E now \in Now : handleAddNew(now)
    \/ Idle /\ \E i \in 1..Len(orders), confirmed \in BOOLEAN : handleDelete(i, confirmed)
    \/ Idle /\ fetchOrders
    \/ \E s \in Slots : StoreStep(s)
    \/ \E s \in Slots : Resolved(s)
    \/ \E s \in Slots : Rejected(s)

SpecSeq == InitLoaded(CartSamples) /\ [][NextSeq]_vars

-----------------------------------------------------------------------------
(* The properties. *)

Ids(list) == {list[i]["_id"] : i \in 1..Len(list)}
Positions(list, id) == {i \in 1..Len(list) : list[i]["_id"] = id}
SameFields(order, doc) == \A k \in OrderKeys : k \in DOMAIN doc /\ order[k] = doc[k]
Unchanged(pre) ==
    /\ orders = pre.orders
    /\ editingOrder = pre.editingOrder
    /\ showAddForm = pre.showAddForm
    /\ formState = pre.formState

\* C1: in every reachable state, create mode and edit mode are not both on:
\* showAddForm = true and editingOrder != null never hold together.
C1_ModesExclusive == ~(showAddForm /\ editingOrder # Null)

\* Edit mode entered from create mode: handleEditClick ran with the add form open.
C1_Witness ==
    /\ ev.op = "handleEditClick"
    /\ ev.mode.showAddForm
    /\ editingOrder # Null

\* C2, as stated: after a failed patch the list, editingOrder and the form
\* state are what they were when the update was submitted.
C2_AsAtSubmission ==
    ev.op = "updateFail" =>
        /\ orders = ev.call.snap.orders
        /\ editingOrder = ev.call.snap.editingOrder
        /\ formState = ev.call.snap.formState

\* C2, amended: the completion of a failed patch changes nothing: the list,
\* editingOrder, showAddForm and the form state are what they were just before
\* it; when they had not changed since the submission they are those of the
\* submission, and the edit session is open.
C2_FailedUpdateChangesNothing ==
    ev.op = "updateFail" =>
        /\ Unchanged(ev.pre)
        /\ ev.pre = ev.call.snap =>
              /\ editingOrder # Null
              /\ ~showAddForm
              /\ UI = ev.call.snap

\* A patch failed while the user had gone on typing in the open edit form.
C2_Witness ==
    /\ ev.op = "updateFail"
    /\ editingOrder # Null
    /\ editingOrder = ev.call.snap.editingOrder
    /\ formState # ev.call.snap.formState

\* C3: after a successful update the list has the length and order it had
\* before the completion; the entries with another id are unchanged and the
\* entries with the edited record's id carry the record the store returned.
C3_UpdateReplacesById ==
    ev.op = "updateDone" =>
        /\ Len(orders) = Len(ev.pre.orders)
        /\ \A i \in 1..Len(orders) :
              IF ev.pre.orders[i]["_id"] = ev.call.snap.editingOrder["_id"]
              THEN SameFields(orders[i], ev.call.result)
              ELSE orders[i] = ev.pre.orders[i]

\* An update changed one entry of a list that holds another entry too.
C3_Witness ==
    /\ ev.op = "updateDone"
    /\ \E i, j \in 1..Len(orders) :
          /\ orders[i] # ev.pre.orders[i]
          /\ orders[j]["_id"] # ev.call.snap.editingOrder["_id"]

\* The list `after` is the list `before` without position i.
WithoutPosition(before, i, after) ==
    /\ Len(after) = Len(before) - 1
    /\ \A j \in 1..Len(after) : after[j] = before[IF j < i THEN j ELSE j + 1]

\* The list `after` is the list `before` without the entries of id `id`.
WithoutId(before, id, after) ==
    LET kept == {i \in 1..Len(before) : before[i]["_id"] # id}
    IN  /\ Len(after) = Cardinality(kept)
        /\ \A i \in kept : after[Cardinality({j \in kept : j <= i})] = before[i]

\* The click on "Delete" answered with no: the calls in flight after the click
\* are those before it, and the page is as it was.
DeclinedDeleteChangesNothing ==
    ev.op = "deleteDeclined" => ev.after = ev.calls /\ Unchanged(ev.pre)

\* C4, as stated: a confirmed delete of X that succeeds removes exactly one
\* entry, the one with id X, and leaves the others as they were; a declined
\* delete issues no call and leaves the list unchanged.
C4_RemovesExactlyOne ==
    /\ ev.op = "deleteDone" =>
          \E i \in Positions(ev.pre.orders, ev.call.id) :
              WithoutPosition(ev.pre.orders, i, orders)
    /\ DeclinedDeleteChangesNothing

\* C4, amended: a confirmed delete of X that succeeds removes every entry with
\* id X (exactly one when the list holds X once as the call completes, none
\* when X has left the list meanwhile) and leaves the others as they were, in
\* order; a declined delete issues no call and leaves the list unchanged.
C4_RemovesEveryMatch ==
    /\ ev.op = "deleteDone" =>
          /\ WithoutId(ev.pre.orders, ev.call.id, orders)
          /\ Cardinality(Positions(ev.pre.orders, ev.call.id)) = 1 =>
                \E i \in Positions(ev.pre.orders, ev.call.id) :
                    WithoutPosition(ev.pre.orders, i, orders)
    /\ DeclinedDeleteChangesNothing

\* A delete removed one entry and left another in the list.
C4_Witness ==
    /\ ev.op = "deleteDone"
    /\ Len(orders) = Len(ev.pre.orders) - 1
    /\ Len(orders) >= 1

\* C5: Select-for-edit shows the order's cart items joined with ", ", and an
\* update submitted with that text unchanged sends the order's cart items.
C5_CartItemsRoundTrip ==
    /\ ev.op = "handleEditClick" =>
          formState["cartItems"] = Join(editingOrder["cartItems"])
    /\ \A s \in Slots :
          (/\ calls[s].kind = "patch"
           /\ calls[s].snap.formState["cartItems"]
                = Join(calls[s].snap.editingOrder["cartItems"]))
          => calls[s].body["cartItems"] = calls[s].snap.editingOrder["cartItems"]

\* The commas of a text, and its k-th piece between them.
CommasOf(t) == {i \in 1..Len(t) : t[i] = ","}
KthSmallest(S, k) == CHOOSE x \in S : Cardinality({y \in S : y < x}) = k - 1
Piece(t, k) ==
    LET marks == CommasOf(t) \cup {0, Len(t) + 1}
    IN  SubSeq(t, KthSmallest(marks, k) + 1, KthSmallest(marks, k + 1) - 1)

\* r is p without its leading and trailing whitespace.
IsTrimOf(r, p) ==
    /\ r = <<>> \/ (r[1] \notin Whitespace /\ r[Len(r)] \notin Whitespace)
    /\ \E l \in 0..Len(p) : \E m \in 0..(Len(p) - l) :
          /\ \A i \in 1..l : p[i] \in Whitespace
          /\ \A i \in (Len(p) - m + 1)..Len(p) : p[i] \in Whitespace
          /\ r = SubSeq(p, l + 1, Len(p) - m)

\* C6: every create sends as cartItems the pieces of the cart-items text
\* between its commas, each trimmed, in order; an empty or unset text sends
\* the empty sequence.
C6_CreateSendsSplitTrimmed ==
    \A s \in Slots :
        calls[s].kind = "create" =>
            LET fs == calls[s].snap.formState
                sent == calls[s].body["cartItems"]
            IN  IF "cartItems" \notin DOMAIN fs \/ fs["cartItems"] = <<>>
                THEN sent = <<>>
                ELSE /\ Len(sent) = Cardinality(CommasOf(fs["cartItems"])) + 1
                     /\ \A k \in 1..Len(sent) :
                           IsTrimOf(sent[k], Piece(fs["cartItems"], k))

\* A create whose text has a comma and whitespace that the trim removed.
C6_Witness ==
    \E s \in Slots :
        /\ calls[s].kind = "create"
        /\ "cartItems" \in DOMAIN calls[s].snap.formState
        /\ Len(calls[s].body["cartItems"]) >= 2
        /\ \E k \in 1..Len(calls[s].body["cartItems"]) :
              /\ calls[s].body["cartItems"][k] # <<>>
              /\ calls[s].body["cartItems"][k]
                    # Piece(calls[s].snap.formState["cartItems"], k)

\* C7: a create that succeeds appends the record the store confirmed to the
\* list as it was just before the completion, and closes and clears the form;
\* a create that fails leaves the list, the form state and the modes unchanged.
C7_CreateAppendsOrChangesNothing ==
    /\ ev.op = "createDone" =>
          /\ Len(orders) = Len(ev.pre.orders) + 1
          /\ SubSeq(orders, 1, Len(ev.pre.orders)) = ev.pre.orders
          /\ SameFields(orders[Len(orders)], ev.call.result)
          /\ editingOrder = Null /\ ~showAddForm /\ formState = EmptyForm
    /\ ev.op = "createFail" => Unchanged(ev.pre)

\* A create appended its record after the entries the list already held.
C7_Witness ==
    /\ ev.op = "createDone"
    /\ Len(ev.pre.orders) >= 1
    /\ orders[Len(orders)]["_id"] \notin Ids(ev.pre.orders)

\* C8: with a store that fails no call, once no call is in flight the ids of
\* the list are the ids of the store's documents.
C8_ListMatchesStoreWhenQuiet ==
    (\A s \in Slots : calls[s].kind = "none") => Ids(orders) = DOMAIN store

\* C9: the list holds at most one entry per id.
C9_UniqueIds ==
    \A i, j \in 1..Len(orders) : orders[i]["_id"] = orders[j]["_id"] => i = j

\* The session open as a call completes is not the one that submitted it.
OtherSession(pre, call) ==
    \/ call.kind = "patch" /\ pre.showAddForm
    \/ call.kind = "patch" /\ pre.editingOrder # Null
          /\ pre.editingOrder["_id"] # call.snap.editingOrder["_id"]
    \/ call.kind = "create" /\ pre.editingOrder # Null

\* C10: a successful update or create closes only the session that submitted
\* it: a session opened meanwhile keeps its mode and its form state.
C10_CompletionSparesOtherSession ==
    (ev.op \in {"updateDone", "createDone"} /\ OtherSession(ev.pre, ev.call))
        => /\ editingOrder = ev.pre.editingOrder
           /\ showAddForm = ev.pre.showAddForm
           /\ formState = ev.pre.formState

====
